---- MODULE Spec2Model ----
(***************************************************************************)
(* Model of the post-processing / entity-resolution pipeline of            *)
(* src/utils/s4_video_post_process.py: the CharacterManager registry, its  *)
(* persistence to CHARACTERS.csv through pandas, and the pairing and       *)
(* materialization step rename_and_copy_videos.                            *)
(*                                                                         *)
(* Text is modelled as a sequence of one-character strings, so that        *)
(* normalization, zero padding, the ", " join and split and the parsing    *)
(* done by pandas.read_csv are computed, not assumed.  A Python value is a *)
(* record [t, s]: t is its type ("str", "int", "nan", "none") and s its    *)
(* text (for an int: its decimal digits).                                  *)
(***************************************************************************)
EXTENDS Integers, Sequences, FiniteSets, TLC

VARIABLES
    characters,   \* manager.characters["characters"]: list of character records
    appearances,  \* manager.characters["appearances"]: list of appearance records
    call,         \* the last call made: its operation, arguments, exception, return value
    table,        \* the file CHARACTERS.csv: whether it exists and its rows (cells are text)
    mapping,      \* fusion/MAPPING.json as last written: list of <<video, new path>> entries
    report,       \* CHARACTERS_FINAL.csv as last written: list of rows
    fusion,       \* files of the fusion directory: list of [path, content]
    pc,           \* position in post_process / the API session
    ncalls,       \* number of add_character / add_appearance calls made so far
    nruns,        \* number of update_character_database runs started so far
    clips,        \* the files and directories on disk outside the fusion directory: paths
    docs,         \* the *-final.json documents of the channel, in the order glob lists them
    merged,       \* <channel>.json as last written: the list of scenes
    todo,         \* process_video_json: the (entity, video) pairs not yet handed to add_appearance
    nreruns,      \* number of repeated direct calls of rename_and_copy_videos so far
    copied,       \* the copies made by the last rename_and_copy_videos: list of [source, destination]
    scrape        \* scrape_list_channels on one channel: its lists, counters and statistics

vars ==
    <<characters, appearances, call, table, mapping, report, fusion, pc, ncalls, nruns, clips,
      docs, merged, todo, nreruns, copied, scrape>>

(***************************************************************************)
(* Bounds of the model.                                                    *)
(***************************************************************************)
MaxCalls == 3
MaxRuns == 2
MaxReruns == 2

(***************************************************************************)
(* Python values.                                                          *)
(***************************************************************************)
PStr(s) == [t |-> "str", s |-> s]
PInt(s) == [t |-> "int", s |-> s]
NaN == [t |-> "nan", s |-> <<>>]
None == [t |-> "none", s |-> <<>>]

Digits == <<"0", "1", "2", "3", "4", "5", "6", "7", "8", "9">>
DigitSet == {Digits[i] : i \in 1..10}
DigitVal(c) == (CHOOSE i \in 1..10 : Digits[i] = c) - 1

\* str(n) for a natural number n
RECURSIVE DecStr(_)
DecStr(n) == IF n < 10 THEN <<Digits[n + 1]>> ELSE DecStr(n \div 10) \o <<Digits[(n % 10) + 1]>>

\* int(s) for a text of decimal digits (leading zeros allowed)
RECURSIVE StrToNat(_)
StrToNat(s) == IF s = <<>> THEN 0 ELSE 10 * StrToNat(SubSeq(s, 1, Len(s) - 1)) + DigitVal(s[Len(s)])

\* left-pad a text with "0" up to a width
RECURSIVE ZeroPad(_, _)
ZeroPad(s, w) == IF Len(s) >= w THEN s ELSE ZeroPad(<<"0">> \o s, w)

IdWidth == 3

\* f"{n:03d}"
Fmt03(n) == ZeroPad(DecStr(n), IdWidth)

\* int(v) of a Python str of digits or of an int
IntOf(v) == StrToNat(v.s)

\* str(v) as DataFrame.to_csv writes a cell
CellText(v) == v.s

\* truth value of a Python value, as in "if char_id:"
Truthy(v) ==
    CASE v.t = "none" -> FALSE
      [] v.t = "str" -> v.s # <<>>
      [] v.t = "int" -> StrToNat(v.s) # 0
      [] OTHER -> TRUE

(***************************************************************************)
(* Characters of the modelled alphabet.                                    *)
(***************************************************************************)
Lower(c) ==
    CASE c = "A" -> "a"
      [] c = "B" -> "b"
      [] c = "C" -> "c"
      [] OTHER -> c

IsSpace(c) == c = " "

\* the characters the regular expression class \w does not match
NonWord == {" ", "-", ".", ",", "/", "!"}
IsWord(c) == c \notin NonWord

Max(a, b) == IF a >= b THEN a ELSE b

SeqToSet(s) == {s[i] : i \in 1..Len(s)}

InList(x, l) == \E i \in 1..Len(l) : l[i] = x

\* s.strip(): s without its leading and trailing white space
Strip(s) ==
    LET inner == {i \in 1..Len(s) : ~IsSpace(s[i])}
    IN  IF inner = {} THEN <<>>
        ELSE SubSeq(s, CHOOSE i \in inner : \A j \in inner : i <= j,
                       CHOOSE i \in inner : \A j \in inner : i >= j)

LowerStr(s) == [i \in 1..Len(s) |-> Lower(s[i])]

\* re.sub replacing the first match only
RemoveNonWord_FirstOnly(s) ==
    LET hits == {i \in 1..Len(s) : ~IsWord(s[i])}
        first == CHOOSE i \in hits : \A j \in hits : i <= j
    IN  IF hits = {} THEN s ELSE SubSeq(s, 1, first - 1) \o SubSeq(s, first + 1, Len(s))

\* re.sub(r"[^\w]", "", s)
RemoveNonWord(s) == SelectSeq(s, IsWord)

\* CharacterManager.normalize_name on a str: re.sub(r"[^\w]", "", name.lower().strip())
NormalizeName(s) == RemoveNonWord(Strip(LowerStr(s)))

\* name.lower() raises AttributeError when name is not a str (a float NaN read from the table)
NormalizeRaises(v) == v.t # "str"

(***************************************************************************)
(* fuzz.ratio: 0 for an empty operand, 100 for equal operands, otherwise   *)
(* round(100 * 2M / T), M the number of matched characters and T the sum   *)
(* of the lengths.                                                         *)
(***************************************************************************)
RECURSIVE LCS(_, _)
LCS(s, t) ==
    IF s = <<>> \/ t = <<>> THEN 0
    ELSE IF Head(s) = Head(t) THEN 1 + LCS(Tail(s), Tail(t))
    ELSE Max(LCS(Tail(s), t), LCS(s, Tail(t)))

\* int(round(100 * 2M / T)), Python rounding (half to even)
RoundRatio(m, t) ==
    LET q == (200 * m) \div t
        r == (200 * m) % t
    IN  IF 2 * r < t THEN q
        ELSE IF 2 * r > t THEN q + 1
        ELSE IF q % 2 = 0 THEN q ELSE q + 1

Ratio(s1, s2) ==
    IF s1 = s2 THEN 100
    ELSE IF s1 = <<>> \/ s2 = <<>> THEN 0
    ELSE RoundRatio(LCS(s1, s2), Len(s1) + Len(s2))

Threshold == 60

(***************************************************************************)
(* CharacterManager.                                                       *)
(***************************************************************************)
Character(id, canonical_name, variations) ==
    [id |-> id, canonical_name |-> canonical_name, variations |-> variations]

Appearance(character_id, video_name) ==
    [character_id |-> character_id, video_name |-> video_name]

\* the outcome of a call: the exception raised ("none" when it returned) and the value returned
Returned(v) == [exc |-> "none", val |-> v]
Raised(e) == [exc |-> e, val |-> None]

Min(S) == CHOOSE m \in S : \A x \in S : m <= x

\* exact pass, lines 94-98: the test "normalized in variations and normalized ==
\* normalize_name(canonical_name)" on one character; the second operand is evaluated
\* only when the first holds
ExactHit(char, normalized) ==
    /\ InList(PStr(normalized), char.variations)
    /\ ~NormalizeRaises(char.canonical_name)
    /\ normalized = NormalizeName(char.canonical_name.s)

ExactRaise(char, normalized) ==
    /\ InList(PStr(normalized), char.variations)
    /\ NormalizeRaises(char.canonical_name)

\* fuzzy pass, lines 101-104, on one character: the names compared, in order
FuzzyNames(char) == char.variations \o <<char.canonical_name>>

\* the threshold test written with >= instead of >
FuzzyMatch_AtLeast(normalized, variation) ==
    Ratio(normalized, NormalizeName(variation.s)) >= Threshold

\* the threshold test with a bound of 70 instead of 60
FuzzyMatch_Above70(normalized, variation) ==
    Ratio(normalized, NormalizeName(variation.s)) > 70

FuzzyMatch(normalized, variation) ==
    Ratio(normalized, NormalizeName(variation.s)) > Threshold

\* positions of FuzzyNames(char) at which the inner loop stops: by a match or by an exception
FuzzyStops(char, normalized) ==
    {j \in 1..Len(FuzzyNames(char)) :
        \/ NormalizeRaises(FuzzyNames(char)[j])
        \/ FuzzyMatch(normalized, FuzzyNames(char)[j])}

FuzzyRaise(char, normalized) ==
    /\ FuzzyStops(char, normalized) # {}
    /\ NormalizeRaises(FuzzyNames(char)[Min(FuzzyStops(char, normalized))])

\* the first character at which a pass stops, and how
ExactPass(chars, normalized) ==
    LET stops == {i \in 1..Len(chars) :
                    ExactHit(chars[i], normalized) \/ ExactRaise(chars[i], normalized)}
    IN  IF stops = {} THEN Returned(None)
        ELSE IF ExactRaise(chars[Min(stops)], normalized) THEN Raised("AttributeError")
        ELSE Returned(chars[Min(stops)].id)

\* FuzzyPass returning the last character above the threshold instead of the first
FuzzyPass_LastMatch(chars, normalized) ==
    LET stops == {i \in 1..Len(chars) : FuzzyStops(chars[i], normalized) # {}}
        last == CHOOSE m \in stops : \A x \in stops : m >= x
    IN  IF stops = {} THEN Returned(None)
        ELSE IF FuzzyRaise(chars[last], normalized) THEN Raised("AttributeError")
        ELSE Returned(chars[last].id)

FuzzyPass(chars, normalized) ==
    LET stops == {i \in 1..Len(chars) : FuzzyStops(chars[i], normalized) # {}}
    IN  IF stops = {} THEN Returned(None)
        ELSE IF FuzzyRaise(chars[Min(stops)], normalized) THEN Raised("AttributeError")
        ELSE Returned(chars[Min(stops)].id)

\* find_character_id comparing the raw name, not its normalized form
find_character_id_RawName(chars, name) ==
    LET normalized == name
        exact == ExactPass(chars, normalized)
    IN  IF exact.exc # "none" \/ exact.val # None THEN exact
        ELSE FuzzyPass(chars, normalized)

\* CharacterManager.find_character_id(name), name a str
find_character_id(chars, name) ==
    LET normalized == NormalizeName(name)
        exact == ExactPass(chars, normalized)
    IN  IF exact.exc # "none" \/ exact.val # None THEN exact
        ELSE FuzzyPass(chars, normalized)

MaxId == 999

\* add_character numbering a new character by the current count instead of count + 1
add_character_CountAsId(chars, name) ==
    LET found == find_character_id(chars, name)
        new_id_num == Len(chars)
        new_id == PStr(Fmt03(new_id_num))
    IN  IF found.exc # "none" THEN [out |-> found, chars |-> chars]
        ELSE IF Truthy(found.val) THEN [out |-> found, chars |-> chars]
        ELSE IF new_id_num > MaxId
        THEN [out |-> Raised("ValueError"), chars |-> chars]
        ELSE [out |-> Returned(new_id),
              chars |-> Append(chars,
                  Character(new_id, PStr(name), <<PStr(NormalizeName(name))>>))]

\* add_character appending the new character before it checks the capacity
add_character_CheckAfterAppend(chars, name) ==
    LET found == find_character_id(chars, name)
        new_id_num == Len(chars) + 1
        new_id == PStr(Fmt03(new_id_num))
        appended == Append(chars, Character(new_id, PStr(name), <<PStr(NormalizeName(name))>>))
    IN  IF found.exc # "none" THEN [out |-> found, chars |-> chars]
        ELSE IF Truthy(found.val) THEN [out |-> found, chars |-> chars]
        ELSE IF new_id_num > MaxId
        THEN [out |-> Raised("ValueError"), chars |-> appended]
        ELSE [out |-> Returned(new_id), chars |-> appended]

\* CharacterManager.add_character(name): the outcome and the character list after the call
add_character(chars, name) ==
    LET found == find_character_id(chars, name)
        new_id_num == Len(chars) + 1
        new_id == PStr(Fmt03(new_id_num))
    IN  IF found.exc # "none" THEN [out |-> found, chars |-> chars]
        ELSE IF Truthy(found.val) THEN [out |-> found, chars |-> chars]
        ELSE IF new_id_num > MaxId
        THEN [out |-> Raised("ValueError"), chars |-> chars]
        ELSE [out |-> Returned(new_id),
              chars |-> Append(chars,
                  Character(new_id, PStr(name), <<PStr(NormalizeName(name))>>))]

\* CharacterManager.add_appearance(character_name, video_name): the outcome, the two
\* lists after the call and the value of its local variable char_id
add_appearance(chars, apps, character_name, video_name) ==
    LET added == add_character(chars, character_name)
        char_id == added.out.val
    IN  IF added.out.exc # "none"
        THEN [out |-> added.out, chars |-> added.chars, apps |-> apps, char_id |-> None]
        ELSE IF \E i \in 1..Len(apps) :
                    apps[i].character_id = char_id /\ apps[i].video_name = video_name
        THEN [out |-> Returned(None), chars |-> added.chars, apps |-> apps,
              char_id |-> char_id]
        ELSE [out |-> Returned(None), chars |-> added.chars,
              apps |-> Append(apps, Appearance(char_id, video_name)), char_id |-> char_id]

\* CharacterManager.get_character_videos(char_id)
RECURSIVE get_character_videos(_, _)
get_character_videos(apps, char_id) ==
    IF apps = <<>> THEN <<>>
    ELSE (IF Head(apps).character_id = char_id THEN <<Head(apps).video_name>> ELSE <<>>)
         \o get_character_videos(Tail(apps), char_id)

(***************************************************************************)
(* CHARACTERS.csv: written by DataFrame.to_csv, read by pandas.read_csv.   *)
(***************************************************************************)
Sep == <<",", " ">>

\* ", ".join(videos)
RECURSIVE JoinVideos(_)
JoinVideos(videos) ==
    IF videos = <<>> THEN <<>>
    ELSE IF Len(videos) = 1 THEN videos[1]
    ELSE videos[1] \o Sep \o JoinVideos(Tail(videos))

\* text.split(", ")
RECURSIVE SplitVideos(_)
SplitVideos(text) ==
    LET cuts == {i \in 1..(Len(text) - 1) : text[i] = Sep[1] /\ text[i + 1] = Sep[2]}
    IN  IF cuts = {} THEN <<text>>
        ELSE <<SubSeq(text, 1, Min(cuts) - 1)>>
             \o SplitVideos(SubSeq(text, Min(cuts) + 2, Len(text)))

Row(id, name, video) == [ID |-> id, NAME |-> name, VIDEO |-> video]

\* CharacterManager.generate_table: the rows handed to DataFrame.to_csv, as text;
\* normalize_name(canonical_name) raises for a character whose name is not a str
generate_table_raises(chars) ==
    \E i \in 1..Len(chars) : NormalizeRaises(chars[i].canonical_name)

generate_table(chars, apps) ==
    [i \in 1..Len(chars) |->
        Row(CellText(chars[i].id),
            NormalizeName(chars[i].canonical_name.s),
            JoinVideos(get_character_videos(apps, chars[i].id)))]

\* pandas.read_csv on the file: a file written from an empty DataFrame has no columns
\* (EmptyDataError); a column of digit texts is read as integers; an empty cell is
\* read as the float NaN.  (A row whose cells are all numeric is handed out by iterrows
\* with its id as a float of the same value; int() and the truth test treat it alike.)
read_csv_raises(file) == file.rows = <<>>

ReadId(cell) == PInt(DecStr(StrToNat(cell)))
ReadText(cell) == IF cell = <<>> THEN NaN ELSE PStr(cell)

read_csv(file) ==
    [i \in 1..Len(file.rows) |->
        Row(ReadId(file.rows[i].ID), ReadText(file.rows[i].NAME), ReadText(file.rows[i].VIDEO))]

\* row["VIDEO"].split(", ") if isinstance(row["VIDEO"], str) else []
RowVideos(row) == IF row.VIDEO.t = "str" THEN SplitVideos(row.VIDEO.s) ELSE <<>>

\* load_existing_characters into a new manager: the character list
LoadCharacters(rows) ==
    [i \in 1..Len(rows) |-> Character(rows[i].ID, rows[i].NAME, <<rows[i].NAME>>)]

\* load_existing_characters into a new manager: the appearance list
RECURSIVE LoadAppearances(_)
LoadAppearances(rows) ==
    IF rows = <<>> THEN <<>>
    ELSE [j \in 1..Len(RowVideos(Head(rows))) |->
              Appearance(Head(rows).ID, RowVideos(Head(rows))[j])]
         \o LoadAppearances(Tail(rows))

(***************************************************************************)
(* rename_and_copy_videos.                                                 *)
(***************************************************************************)
\* the (video, char_id) pairs of the table in the order the loop of lines 258-263 meets them
RECURSIVE TableEntries(_)
TableEntries(rows) ==
    IF rows = <<>> THEN <<>>
    ELSE [j \in 1..Len(RowVideos(Head(rows))) |->
              [video |-> RowVideos(Head(rows))[j], char_id |-> Head(rows).ID]]
         \o TableEntries(Tail(rows))

\* keys of video_to_chars in insertion order
RECURSIVE VideoKeys(_, _)
VideoKeys(entries, seen) ==
    IF entries = <<>> THEN <<>>
    ELSE IF Head(entries).video \in seen THEN VideoKeys(Tail(entries), seen)
    ELSE <<Head(entries).video>> \o VideoKeys(Tail(entries), seen \cup {Head(entries).video})

\* video_to_chars[video]
RECURSIVE CharIds(_, _)
CharIds(entries, video) ==
    IF entries = <<>> THEN <<>>
    ELSE (IF Head(entries).video = video THEN <<Head(entries).char_id>> ELSE <<>>)
         \o CharIds(Tail(entries), video)

\* s1 < s2 as Python compares two str of digits
RECURSIVE StrLess(_, _)
StrLess(s1, s2) ==
    IF s2 = <<>> THEN FALSE
    ELSE IF s1 = <<>> THEN TRUE
    ELSE IF Head(s1) = Head(s2) THEN StrLess(Tail(s1), Tail(s2))
    ELSE DigitVal(Head(s1)) < DigitVal(Head(s2))

\* list.sort() of a list of two str
SortPair(l) == IF StrLess(l[2], l[1]) THEN <<l[2], l[1]>> ELSE l

\* formatted_ids sorted before the ids are padded to three digits
FormattedIds_SortUnpadded(char_ids) ==
    LET sorted == SortPair([i \in 1..Len(char_ids) |-> DecStr(IntOf(char_ids[i]))])
    IN  [i \in 1..Len(sorted) |-> ZeroPad(sorted[i], IdWidth)]

\* lines 274-275: formatted_ids after the sort
FormattedIds(char_ids) == SortPair([i \in 1..Len(char_ids) |-> Fmt03(IntOf(char_ids[i]))])

FusionDir == <<"f", "/">>
Mp4 == <<".", "m", "p", "4">>

\* lines 276-278: str(fusion_dir / f"{formatted_ids[0]}_{formatted_ids[1]}.mp4")
NewPath(char_ids) ==
    FusionDir \o FormattedIds(char_ids)[1] \o <<"_">> \o FormattedIds(char_ids)[2] \o Mp4

\* os.path.exists answering that no file exists
FileExists_Never(files, path) == FALSE

FileExists(files, path) == \E f \in files : f.path = path

\* copy_file_if_not_exists copying over an existing destination
copy_file_if_not_exists_Overwrite(source, destination, files, disk) ==
    IF source \in disk
    THEN {f \in files : f.path # destination} \cup {[path |-> destination, content |-> source]}
    ELSE files

\* copy_file_if_not_exists(source, destination): the files of the fusion directory after
\* the call; shutil.copy2 raises, and the exception is caught, when the source is missing
copy_file_if_not_exists(source, destination, files, disk) ==
    IF FileExists(files, destination) THEN files
    ELSE IF source \in disk THEN files \cup {[path |-> destination, content |-> source]}
    ELSE files

\* copy_file_if_not_exists(source, destination): the value returned, True when the file
\* was copied
copy_file_returns(source, destination, files, disk) ==
    ~FileExists(files, destination) /\ source \in disk

\* the loop of lines 268-281: renamed_videos and the files of the fusion directory
RECURSIVE RenameLoop(_, _, _, _, _)
RenameLoop(keys, entries, renamed, files, disk) ==
    IF keys = <<>> THEN [renamed |-> renamed, files |-> files]
    ELSE LET video == Head(keys)
             char_ids == CharIds(entries, video)
         IN  IF Len(char_ids) # 2
             THEN RenameLoop(Tail(keys), entries, renamed, files, disk)
             ELSE RenameLoop(Tail(keys), entries,
                      Append(renamed, [video |-> video, path |-> NewPath(char_ids)]),
                      copy_file_if_not_exists(video, NewPath(char_ids), files, disk),
                      disk)

\* the loop of lines 268-281: the copies made, in order
RECURSIVE CopyLog(_, _, _, _)
CopyLog(keys, entries, files, disk) ==
    IF keys = <<>> THEN <<>>
    ELSE LET video == Head(keys)
             char_ids == CharIds(entries, video)
         IN  IF Len(char_ids) # 2
             THEN CopyLog(Tail(keys), entries, files, disk)
             ELSE (IF copy_file_returns(video, NewPath(char_ids), files, disk)
                   THEN <<[source |-> video, destination |-> NewPath(char_ids)]>>
                   ELSE <<>>)
                  \o CopyLog(Tail(keys), entries,
                             copy_file_if_not_exists(video, NewPath(char_ids), files, disk), disk)

\* os.path.basename
RECURSIVE Basename(_)
Basename(path) ==
    IF \E i \in 1..Len(path) : path[i] = "/"
    THEN Basename(Tail(path))
    ELSE path

InMapping(renamed, video) == \E i \in 1..Len(renamed) : renamed[i].video = video
Renamed(renamed, video) ==
    renamed[CHOOSE i \in 1..Len(renamed) : renamed[i].video = video].path

\* lines 298-302: the new name of one video of a row
NewVideo(renamed, video) ==
    IF InMapping(renamed, video) THEN Basename(Renamed(renamed, video)) ELSE Basename(video)

\* lines 288-307: the rows of CHARACTERS_FINAL.csv, as text
FinalRows(rows, renamed) ==
    [i \in 1..Len(rows) |->
        [ID |-> CellText(rows[i].ID),
         NAME |-> CellText(rows[i].NAME),
         NEW_VIDEO |-> JoinVideos([j \in 1..Len(RowVideos(rows[i])) |->
                                      NewVideo(renamed, RowVideos(rows[i])[j])])]]

(***************************************************************************)
(* Inputs: the raw entity names and the clip names of the scenes.          *)
(***************************************************************************)
RawNames == {<<"a">>, <<"A">>, <<"b">>, <<"a", "b">>, <<"-">>}

Videos == {<<"v">>, <<"w">>, <<>>, <<"v", ",", " ", "w">>}

ClipPaths == {<<"v">>, <<"w">>}

\* the clip files on disk: all of them, or only "v"
ClipSets == {ClipPaths, {<<"v">>}}

Call(op, name, video, out, char_id) ==
    [op |-> op, name |-> name, video |-> video, out |-> out, char_id |-> char_id]

NoFile == [exists |-> FALSE, rows |-> <<>>]

(***************************************************************************)
(* The state after construction: a new CharacterManager, no CHARACTERS.csv,*)
(* an empty fusion directory.                                              *)
(***************************************************************************)
\* scrape_list_channels has not been called
NoScrape ==
    [channel_videos |-> <<>>, existing_video_ids |-> {}, new_videos |-> <<>>, retries |-> 0,
     failed |-> 0, outcome |-> <<>>, files |-> {},
     stats |-> [total_found |-> 0, already_downloaded |-> 0, new_downloads |-> 0,
                failed_downloads |-> 0]]

InitCommon ==
    /\ characters = <<>>
    /\ appearances = <<>>
    /\ call = Call("none", <<>>, <<>>, Returned(None), None)
    /\ table = NoFile
    /\ mapping = <<>>
    /\ report = <<>>
    /\ fusion = {}
    /\ ncalls = 0
    /\ nruns = 0
    /\ merged = <<>>
    /\ todo = <<>>
    /\ nreruns = 0
    /\ copied = <<>>
    /\ scrape = NoScrape

Init ==
    /\ InitCommon
    /\ docs = <<>>
    /\ pc = "idle"
    /\ clips \in ClipSets

(***************************************************************************)
(* update_character_database, lines 210-214: a new manager, seeded from    *)
(* CHARACTERS.csv when the file exists.  An exception ends the run.        *)
(***************************************************************************)
StartRun ==
    /\ pc = "idle"
    /\ nruns < MaxRuns
    /\ nruns' = nruns + 1
    /\ IF ~table.exists
       THEN /\ characters' = <<>>
            /\ appearances' = <<>>
            /\ call' = Call("load", <<>>, <<>>, Returned(None), None)
            /\ pc' = "process"
       ELSE IF read_csv_raises(table)
       THEN /\ characters' = <<>>
            /\ appearances' = <<>>
            /\ call' = Call("load", <<>>, <<>>, Raised("EmptyDataError"), None)
            /\ pc' = "idle"
       ELSE \E rows \in {read_csv(table)} :
            /\ characters' = LoadCharacters(rows)
            /\ appearances' = LoadAppearances(rows)
            /\ call' = Call("load", <<>>, <<>>, Returned(None), None)
            /\ pc' = "process"
    /\ UNCHANGED <<table, mapping, report, fusion, ncalls, clips, docs, merged, todo, nreruns, copied, scrape>>

(***************************************************************************)
(* CharacterManager.add_character(name), called on the manager directly.   *)
(***************************************************************************)
AddCharacter(name) ==
    /\ pc = "api"
    /\ ncalls < MaxCalls
    /\ ncalls' = ncalls + 1
    /\ \E r \in {add_character(characters, name)} :
           /\ characters' = r.chars
           /\ call' = Call("add_character", name, <<>>, r.out, r.out.val)
    /\ UNCHANGED <<appearances, table, mapping, report, fusion, pc, nruns, clips, docs, merged, todo, nreruns, copied, scrape>>

(***************************************************************************)
(* CharacterManager.add_appearance(character_name, video_name): one step   *)
(* of the loops of process_video_json, or a call on the manager directly.  *)
(* An exception inside process_video_json ends the run.                    *)
(***************************************************************************)
AddAppearance(name, video) ==
    /\ pc \in {"api", "process"}
    /\ ncalls < MaxCalls
    /\ ncalls' = ncalls + 1
    /\ \E r \in {add_appearance(characters, appearances, name, video)} :
           /\ characters' = r.chars
           /\ appearances' = r.apps
           /\ call' = Call("add_appearance", name, video, r.out, r.char_id)
           /\ pc' = IF r.out.exc # "none" /\ pc = "process" THEN "idle" ELSE pc
    /\ UNCHANGED <<table, mapping, report, fusion, nruns, clips, docs, merged, todo, nreruns, copied, scrape>>

(***************************************************************************)
(* update_character_database, line 220: manager.generate_table().          *)
(***************************************************************************)
GenerateTable ==
    /\ pc = "process"
    /\ todo = <<>>
    /\ IF generate_table_raises(characters)
       THEN /\ call' = Call("generate_table", <<>>, <<>>, Raised("AttributeError"), None)
            /\ pc' = "idle"
            /\ table' = table
       ELSE /\ call' = Call("generate_table", <<>>, <<>>, Returned(None), None)
            /\ pc' = "rename"
            /\ table' = [exists |-> TRUE, rows |-> generate_table(characters, appearances)]
    /\ UNCHANGED <<characters, appearances, mapping, report, fusion, ncalls, nruns, clips, docs, merged, todo, nreruns, copied, scrape>>

(***************************************************************************)
(* rename_and_copy_videos on the table just written.                       *)
(***************************************************************************)
rename_and_copy_videos ==
    IF read_csv_raises(table)
    THEN /\ call' = Call("rename_and_copy_videos", <<>>, <<>>, Raised("EmptyDataError"), None)
         /\ UNCHANGED <<mapping, report, fusion, copied>>
    ELSE \E rows \in {read_csv(table)} :
         \E entries \in {TableEntries(rows)} :
         \E done \in {RenameLoop(VideoKeys(entries, {}), entries, <<>>, fusion, clips)} :
             /\ call' = Call("rename_and_copy_videos", <<>>, <<>>, Returned(None), None)
             /\ mapping' = done.renamed
             /\ fusion' = done.files
             /\ copied' = CopyLog(VideoKeys(entries, {}), entries, fusion, clips)
             /\ report' = FinalRows(rows, done.renamed)

RenameAndCopy ==
    /\ pc = "rename"
    /\ pc' = "idle"
    /\ rename_and_copy_videos
    /\ UNCHANGED <<characters, appearances, table, ncalls, nruns, clips, docs, merged, todo, nreruns, scrape>>

(***************************************************************************)
(* rename_and_copy_videos called again on the same table, after it has     *)
(* returned.                                                               *)
(***************************************************************************)
RenameAgain ==
    /\ pc = "idle"
    /\ call.op = "rename_and_copy_videos"
    /\ nreruns < MaxReruns
    /\ nreruns' = nreruns + 1
    /\ rename_and_copy_videos
    /\ UNCHANGED <<characters, appearances, table, pc, ncalls, nruns, clips, docs, merged, todo, scrape>>

Next ==
    \/ StartRun
    \/ \E name \in RawNames, video \in Videos : AddAppearance(name, video)
    \/ GenerateTable
    \/ RenameAndCopy

Spec == Init /\ [][Next]_vars

(***************************************************************************)
(* A session on one CharacterManager, starting from the empty registry.    *)
(***************************************************************************)
InitApi ==
    /\ InitCommon
    /\ docs = <<>>
    /\ pc = "api"
    /\ clips = ClipPaths

NextApi ==
    \/ \E name \in RawNames : AddCharacter(name)
    \/ \E name \in RawNames, video \in Videos : AddAppearance(name, video)

SpecApi == InitApi /\ [][NextApi]_vars

(***************************************************************************)
(* A session on one CharacterManager whose registry is nearly full.  The   *)
(* registry holds the characters created by add_character for CapName(1),  *)
(* CapName(2), ... in turn: two-letter names, pairwise different, so the   *)
(* similarity of any two is at most 50 and each call created a character.  *)
(***************************************************************************)
CapLetters ==
    <<"a", "b", "c", "d", "e", "f", "g", "h", "i", "j", "k", "l", "m", "n", "o", "p",
      "q", "r", "s", "t", "u", "v", "w", "x", "y", "z", "0", "1", "2", "3", "4", "5">>

CapName(i) ==
    <<CapLetters[((i - 1) \div Len(CapLetters)) + 1], CapLetters[((i - 1) % Len(CapLetters)) + 1]>>

CapRegistry(n) ==
    [i \in 1..n |-> Character(PStr(Fmt03(i)), PStr(CapName(i)), <<PStr(CapName(i))>>)]

\* the registry starts with MaxId - CapRoom to MaxId characters
CapRoom == 1

\* names that match no character (the first two), one character exactly, one by similarity
CapNames == {CapName(MaxId + 1), CapName(MaxId + 2), CapName(MaxId), <<"5">>}

\* the characters whose resolution is checked after a capacity error
CapSample == {1, 2, MaxId \div 2, MaxId - 1, MaxId}

CapVideos == {<<"v">>}

InitCap ==
    /\ \E n \in (MaxId - CapRoom)..MaxId : characters = CapRegistry(n)
    /\ appearances = <<>>
    /\ call = Call("none", <<>>, <<>>, Returned(None), None)
    /\ table = NoFile
    /\ mapping = <<>>
    /\ report = <<>>
    /\ fusion = {}
    /\ ncalls = 0
    /\ nruns = 0
    /\ docs = <<>>
    /\ merged = <<>>
    /\ todo = <<>>
    /\ nreruns = 0
    /\ copied = <<>>
    /\ scrape = NoScrape
    /\ pc = "api"
    /\ clips = ClipPaths

NextCap ==
    \/ \E name \in CapNames : AddCharacter(name)
    \/ \E name \in CapNames, video \in CapVideos : AddAppearance(name, video)

SpecCap == InitCap /\ [][NextCap]_vars

(***************************************************************************)
(* rename_and_copy_videos(character_csv_path) on a character table of two  *)
(* rows given by the caller: ids written with or without leading zeros, in *)
(* either order.                                                           *)
(***************************************************************************)
MaxTableId == 11

TableIdTexts == {DecStr(n) : n \in 1..MaxTableId} \cup {Fmt03(n) : n \in 1..MaxTableId}

TableVideoTexts == {<<"v">>, <<"w">>, <<"v", ",", " ", "w">>}

\* a file that is in the fusion directory before the first call
OldFiles == {[path |-> FusionDir \o Fmt03(1) \o <<"_">> \o Fmt03(2) \o Mp4, content |-> <<"o">>]}

RenameTables ==
    {<<Row(id1, <<"a">>, video1), Row(id2, <<"b">>, video2)>> :
        id1 \in TableIdTexts, id2 \in TableIdTexts,
        video1 \in TableVideoTexts, video2 \in TableVideoTexts}

InitRename ==
    /\ characters = <<>>
    /\ appearances = <<>>
    /\ call = Call("none", <<>>, <<>>, Returned(None), None)
    /\ \E rows \in RenameTables :
          /\ StrToNat(rows[1].ID) # StrToNat(rows[2].ID)
          /\ table = [exists |-> TRUE, rows |-> rows]
    /\ mapping = <<>>
    /\ report = <<>>
    /\ fusion \in {{}, OldFiles}
    /\ ncalls = 0
    /\ nruns = 0
    /\ docs = <<>>
    /\ merged = <<>>
    /\ todo = <<>>
    /\ nreruns = 0
    /\ copied = <<>>
    /\ scrape = NoScrape
    /\ pc = "rename"
    /\ clips \in ClipSets

NextRename ==
    \/ RenameAndCopy
    \/ RenameAgain

SpecRename == InitRename /\ [][NextRename]_vars

(***************************************************************************)
(* rename_and_copy_videos on a table whose two rows share one clip, the    *)
(* clip named with the extension .mp4, with another extension or with none.*)
(***************************************************************************)
ExtClips ==
    {<<"v">> \o Mp4, <<"v", ".", "m", "o", "v">>, <<"v">>, <<".", "v">>,
     <<"d", ".", "x", "/", "v">>}

ExtTables ==
    {<<Row(id1, <<"a">>, video), Row(id2, <<"b">>, video)>> :
        id1 \in TableIdTexts, id2 \in TableIdTexts, video \in ExtClips}

InitExt ==
    /\ characters = <<>>
    /\ appearances = <<>>
    /\ call = Call("none", <<>>, <<>>, Returned(None), None)
    /\ \E rows \in ExtTables :
          /\ StrToNat(rows[1].ID) # StrToNat(rows[2].ID)
          /\ table = [exists |-> TRUE, rows |-> rows]
    /\ mapping = <<>>
    /\ report = <<>>
    /\ fusion = {}
    /\ ncalls = 0
    /\ nruns = 0
    /\ docs = <<>>
    /\ merged = <<>>
    /\ todo = <<>>
    /\ nreruns = 0
    /\ copied = <<>>
    /\ scrape = NoScrape
    /\ pc = "rename"
    /\ clips = ExtClips

NextExt == RenameAndCopy

SpecExt == InitExt /\ [][NextExt]_vars

(***************************************************************************)
(* merge_final_json_files.  A document is what load_json returns for one   *)
(* *-final.json file; its kind tells what the file holds:                  *)
(*   "unparseable"  no JSON: load_json catches the error and returns {}    *)
(*   "falsy"        null, false, 0, "", [] or {}                           *)
(*   "array"        a non-empty array (of values other than "scenes")      *)
(*   "number"       a number other than 0, or true                         *)
(*   "no_scenes"    an object without the key "scenes"                     *)
(*   "not_list"     an object whose "scenes" is not an array               *)
(*   "object"       an object whose "scenes" is the array doc.scenes       *)
(* A scene is an object with or without the key "name".                    *)
(***************************************************************************)
Missing == [t |-> "missing", s |-> <<>>]

Scene(name, original_entities) == [name |-> name, original_entities |-> original_entities]

Doc(kind, scenes) == [kind |-> kind, scenes |-> scenes]

\* scene.get("name", "")
SceneName(scene) == IF scene.name.t = "missing" THEN <<>> ELSE scene.name.s

VideosDir == <<"d">>

\* pathlib: directory / name; joining the empty name gives the directory itself
JoinPath(dir, name) == IF name = <<>> THEN dir ELSE dir \o <<"/">> \o name

\* Path.exists
PathExists(path, disk) == path \in disk

\* the characters of the model in the order of their code points
CodeOrder ==
    <<" ", "!", ",", "-", ".", "/", "0", "1", "2", "3", "4", "5", "6", "7", "8", "9",
      "A", "B", "C", "_", "a", "b", "c", "d", "e", "f", "m", "o", "p", "v", "w">>

Ord(c) == CHOOSE i \in 1..Len(CodeOrder) : CodeOrder[i] = c

\* s1 < s2 as Python compares two str
RECURSIVE TextLess(_, _)
TextLess(s1, s2) ==
    IF s2 = <<>> THEN FALSE
    ELSE IF s1 = <<>> THEN TRUE
    ELSE IF Head(s1) = Head(s2) THEN TextLess(Tail(s1), Tail(s2))
    ELSE Ord(Head(s1)) < Ord(Head(s2))

\* line 54: "scenes" not in data raises TypeError when data is a number
DocRaises(doc) == doc.kind \in {"number"}

\* lines 53-56: the scenes of a document that is not skipped
DocScenes(doc) == IF doc.kind = "object" THEN doc.scenes ELSE <<>>

\* the existence test left out: every scene counts as valid
SceneValid_Always(scene, disk) == TRUE

\* lines 60-63: the clip of the scene exists in the video directory
SceneValid(scene, disk) ==
    PathExists(JoinPath(VideosDir, Basename(SceneName(scene))), disk)

\* lines 52-69: all_scenes before the sort
RECURSIVE AllScenes(_, _)
AllScenes(documents, disk) ==
    IF documents = <<>> THEN <<>>
    ELSE SelectSeq(DocScenes(Head(documents)), LAMBDA scene : SceneValid(scene, disk))
         \o AllScenes(Tail(documents), disk)

\* one step of the stable sort: scene put after the scenes whose name is not greater
RECURSIVE InsertScene(_, _)
InsertScene(scene, sorted) ==
    IF sorted = <<>> THEN <<scene>>
    ELSE IF TextLess(SceneName(scene), SceneName(Head(sorted)))
    THEN <<scene>> \o sorted
    ELSE <<Head(sorted)>> \o InsertScene(scene, Tail(sorted))

\* the sort left out: the scenes in the order of the documents
SortScenes_DocumentOrder(scenes) == scenes

\* all_scenes.sort(key=lambda x: x.get("name", ""))
RECURSIVE SortScenes(_)
SortScenes(scenes) ==
    IF scenes = <<>> THEN <<>>
    ELSE InsertScene(scenes[Len(scenes)], SortScenes(SubSeq(scenes, 1, Len(scenes) - 1)))

\* merge_final_json_files: the exception raised, or the scenes saved to <channel>.json
merge_final_json_files(documents, disk) ==
    IF \E i \in 1..Len(documents) : DocRaises(documents[i])
    THEN [exc |-> "TypeError", scenes |-> <<>>]
    ELSE [exc |-> "none", scenes |-> SortScenes(AllScenes(documents, disk))]

(***************************************************************************)
(* post_process, line 318: the aggregation step.                           *)
(***************************************************************************)
Merge ==
    /\ pc = "idle"
    /\ \E r \in {merge_final_json_files(docs, clips)} :
          IF r.exc # "none"
          THEN /\ call' = Call("merge_final_json_files", <<>>, <<>>, Raised(r.exc), None)
               /\ pc' = "idle"
               /\ merged' = merged
          ELSE /\ call' = Call("merge_final_json_files", <<>>, <<>>, Returned(None), None)
               /\ pc' = "merged"
               /\ merged' = r.scenes
    /\ UNCHANGED <<characters, appearances, table, mapping, report, fusion, ncalls, nruns,
                   clips, docs, todo, nreruns, copied, scrape>>

(***************************************************************************)
(* merge_final_json_files on the documents of a channel: up to MaxDocs     *)
(* documents of every kind, scenes whose clip is in the video directory,   *)
(* in another directory, nowhere, or that have an empty or no name.        *)
(***************************************************************************)
MaxDocs == 2

MergeScenes ==
    {Scene(PStr(<<"d", "/", "w">>), <<<<"a">>>>),
     Scene(PStr(<<"e", "/", "v">>), <<<<"b">>>>),
     Scene(PStr(<<>>), <<<<"a">>>>),
     Scene(Missing, <<<<"b">>>>)}

\* the same clip listed by another document, with another entity
SameClipScene == Scene(PStr(<<"d", "/", "w">>), <<<<"b">>>>)

MergeSceneLists ==
    {<<>>, <<SameClipScene>>}
      \cup {<<s>> : s \in MergeScenes} \cup {<<s, t>> : s \in MergeScenes, t \in MergeScenes}

DocKinds == {"unparseable", "falsy", "array", "number", "no_scenes", "not_list"}

MergeDocs ==
    {Doc(kind, <<>>) : kind \in DocKinds} \cup {Doc("object", l) : l \in MergeSceneLists}

\* the video directory: missing, empty, or holding the clips v and w
MergeDisks ==
    {{}, {VideosDir}, {VideosDir, <<"d", "/", "v">>}, {VideosDir, <<"d", "/", "v">>, <<"d", "/", "w">>}}

InitMerge ==
    /\ InitCommon
    /\ pc = "idle"
    /\ clips \in MergeDisks
    /\ \E n \in 1..MaxDocs : docs \in [1..n -> MergeDocs]

NextMerge == Merge

SpecMerge == InitMerge /\ [][NextMerge]_vars

(***************************************************************************)
(* post_process: aggregation, update_character_database and                *)
(* rename_and_copy_videos on the documents of a channel.  The process can  *)
(* be killed between two steps or while a clip is being copied; a later    *)
(* post_process starts again from the aggregation.                         *)
(***************************************************************************)
\* process_video_json, lines 147-150: the calls of add_appearance, in order
RECURSIVE ScenePairs(_, _)
ScenePairs(entities, video_name) ==
    IF entities = <<>> THEN <<>>
    ELSE <<[name |-> Head(entities), video |-> video_name]>>
         \o ScenePairs(Tail(entities), video_name)

RECURSIVE Pairs(_)
Pairs(scenes) ==
    IF scenes = <<>> THEN <<>>
    ELSE ScenePairs(Head(scenes).original_entities, SceneName(Head(scenes)))
         \o Pairs(Tail(scenes))

\* update_character_database, lines 210-217: a new manager, seeded from CHARACTERS.csv
\* when the file exists, and the merged scenes handed to process_video_json
StartUpdate ==
    /\ pc = "merged"
    /\ nruns < MaxRuns
    /\ nruns' = nruns + 1
    /\ IF ~table.exists
       THEN /\ characters' = <<>>
            /\ appearances' = <<>>
            /\ call' = Call("load", <<>>, <<>>, Returned(None), None)
            /\ pc' = "process"
            /\ todo' = Pairs(merged)
       ELSE IF read_csv_raises(table)
       THEN /\ characters' = <<>>
            /\ appearances' = <<>>
            /\ call' = Call("load", <<>>, <<>>, Raised("EmptyDataError"), None)
            /\ pc' = "idle"
            /\ todo' = <<>>
       ELSE \E rows \in {read_csv(table)} :
            /\ characters' = LoadCharacters(rows)
            /\ appearances' = LoadAppearances(rows)
            /\ call' = Call("load", <<>>, <<>>, Returned(None), None)
            /\ pc' = "process"
            /\ todo' = Pairs(merged)
    /\ UNCHANGED <<table, mapping, report, fusion, ncalls, clips, docs, merged, nreruns, copied, scrape>>

\* process_video_json, line 150: add_appearance for the next entity of the merged scenes
ProcessEntity ==
    /\ pc = "process"
    /\ todo # <<>>
    /\ ncalls' = ncalls + 1
    /\ \E r \in {add_appearance(characters, appearances, Head(todo).name, Head(todo).video)} :
           /\ characters' = r.chars
           /\ appearances' = r.apps
           /\ call' = Call("add_appearance", Head(todo).name, Head(todo).video, r.out, r.char_id)
           /\ pc' = IF r.out.exc # "none" THEN "idle" ELSE pc
           /\ todo' = IF r.out.exc # "none" THEN <<>> ELSE Tail(todo)
    /\ UNCHANGED <<table, mapping, report, fusion, nruns, clips, docs, merged, nreruns, copied, scrape>>

\* the process is killed between two steps
Interrupt ==
    /\ pc \in {"merged", "process", "rename"}
    /\ pc' = "idle"
    /\ todo' = <<>>
    /\ call' = Call("interrupt", <<>>, <<>>, Returned(None), None)
    /\ UNCHANGED <<characters, appearances, table, mapping, report, fusion, ncalls, nruns,
                   clips, docs, merged, nreruns, copied, scrape>>

\* shutil.copy2 cut short: the destination exists with a part of the content
PartialFile(source, destination) == [path |-> destination, content |-> <<"!">> \o source]

\* the process is killed inside rename_and_copy_videos while the k-th clip of
\* video_to_chars is being copied: the clips before it are done, MAPPING.json and
\* CHARACTERS_FINAL.csv are not written
InterruptCopy ==
    /\ pc = "rename"
    /\ ~read_csv_raises(table)
    /\ \E entries \in {TableEntries(read_csv(table))} :
       \E k \in 1..Len(VideoKeys(entries, {})) :
       \E before \in {RenameLoop(SubSeq(VideoKeys(entries, {}), 1, k - 1), entries, <<>>,
                                   fusion, clips)} :
       \E video \in {VideoKeys(entries, {})[k]} :
           /\ Len(CharIds(entries, video)) = 2
           /\ copy_file_returns(video, NewPath(CharIds(entries, video)), before.files, clips)
           /\ fusion' = before.files
                            \cup {PartialFile(video, NewPath(CharIds(entries, video)))}
    /\ pc' = "idle"
    /\ todo' = <<>>
    /\ call' = Call("interrupt", <<>>, <<>>, Returned(None), None)
    /\ UNCHANGED <<characters, appearances, table, mapping, report, ncalls, nruns,
                   clips, docs, merged, nreruns, copied, scrape>>

\* process_video_json on a list of calls: the exception that ends it, if any, and the
\* two lists after it
RECURSIVE process_video_json(_, _, _)
process_video_json(chars, apps, pairs) ==
    IF pairs = <<>> THEN [exc |-> "none", chars |-> chars, apps |-> apps]
    ELSE LET r == add_appearance(chars, apps, Head(pairs).name, Head(pairs).video)
         IN  IF r.out.exc # "none"
             THEN [exc |-> r.out.exc, chars |-> r.chars, apps |-> r.apps]
             ELSE process_video_json(r.chars, r.apps, Tail(pairs))

\* post_process run from the start to the end, without CHARACTERS.csv and with an empty
\* fusion directory before it: the exception that ends it, if any, and what it wrote
post_process(documents, disk) ==
    LET none == [exc |-> "none", table |-> <<>>, mapping |-> <<>>, report |-> <<>>, files |-> {}]
        m == merge_final_json_files(documents, disk)
        p == process_video_json(<<>>, <<>>, Pairs(m.scenes))
        written == generate_table(p.chars, p.apps)
        rows == read_csv([exists |-> TRUE, rows |-> written])
        entries == TableEntries(rows)
        done == RenameLoop(VideoKeys(entries, {}), entries, <<>>, {}, disk)
    IN  IF m.exc # "none" THEN [none EXCEPT !.exc = m.exc]
        ELSE IF p.exc # "none" THEN [none EXCEPT !.exc = p.exc]
        ELSE IF written = <<>> THEN [none EXCEPT !.exc = "EmptyDataError", !.table = written]
        ELSE [exc |-> "none", table |-> written, mapping |-> done.renamed,
              report |-> FinalRows(rows, done.renamed), files |-> done.files]

\* the scenes of the pipeline runs: two clips with two entities each, a scene without
\* name, and a clip whose name holds the separator of the VIDEO column
PipeScenes ==
    {Scene(PStr(<<"d", "/", "v">>), <<<<"a">>, <<"b">>>>),
     Scene(PStr(<<"d", "/", "w">>), <<<<"a">>, <<"c">>>>),
     Scene(PStr(<<"d", "/", "w">>), <<<<"C">>, <<"b">>>>),
     Scene(PStr(<<>>), <<<<"-">>>>),
     Scene(PStr(<<>>), <<<<"a">>>>),
     Scene(PStr(<<"d", "/", "v", ",", " ", "w">>), <<<<"a">>>>)}

\* a document of one scene, or of two scenes listed in the order of their clips or not
PipeSceneLists ==
    {<<s>> : s \in PipeScenes}
      \cup {<<Scene(PStr(<<"d", "/", "v">>), <<<<"a">>, <<"b">>>>),
               Scene(PStr(<<"d", "/", "w">>), <<<<"a">>, <<"c">>>>)>>,
             <<Scene(PStr(<<"d", "/", "w">>), <<<<"C">>, <<"b">>>>),
               Scene(PStr(<<"d", "/", "v">>), <<<<"a">>, <<"b">>>>)>>}

PipeDocs == {Doc("unparseable", <<>>)} \cup {Doc("object", l) : l \in PipeSceneLists}

PipeDisks ==
    {{VideosDir, <<"d", "/", "v">>},
     {VideosDir, <<"d", "/", "v">>, <<"d", "/", "w">>, <<"d", "/", "v", ",", " ", "w">>}}

InitPipe ==
    /\ InitCommon
    /\ pc = "idle"
    /\ clips \in PipeDisks
    /\ \E n \in 1..MaxDocs : docs \in [1..n -> PipeDocs]

NextPipe ==
    \/ Merge
    \/ StartUpdate
    \/ ProcessEntity
    \/ GenerateTable
    \/ RenameAndCopy
    \/ Interrupt
    \/ InterruptCopy

SpecPipe == InitPipe /\ [][NextPipe]_vars

(***************************************************************************)
(* CharacterManager.normalize_name on every name of up to MaxNameLen       *)
(* characters: letters of both cases, a digit, the underscore, the space   *)
(* and punctuation.                                                        *)
(***************************************************************************)
MaxNameLen == 3

NormAlphabet == {"a", "A", "B", "0", "_", " ", "-", "."}

NormNames == UNION {[1..n -> NormAlphabet] : n \in 0..MaxNameLen}

InitNorm ==
    /\ InitCommon
    /\ docs = <<>>
    /\ pc = "normalize"
    /\ clips = ClipPaths

\* one call of normalize_name
NormalizeCall(name) ==
    /\ pc = "normalize"
    /\ pc' = "idle"
    /\ call' = Call("normalize_name", name, <<>>, Returned(PStr(NormalizeName(name))), None)
    /\ UNCHANGED <<characters, appearances, table, mapping, report, fusion, ncalls, nruns,
                   clips, docs, merged, todo, nreruns, copied, scrape>>

NextNorm == \E name \in NormNames : NormalizeCall(name)

SpecNorm == InitNorm /\ [][NextNorm]_vars

(***************************************************************************)
(* A session of add_character calls with names that are similar to each    *)
(* other: the similarity of abcd and abef is 50, that of abcef is 67 to    *)
(* abcd and 89 to abef, that of abcxy is 60 to abcde and to abcef, that of  *)
(* abcdx is 89 to abcd, 80 to abcde and to abcxy, 60 to abcef.             *)
(***************************************************************************)
SimilarNames ==
    {<<"a", "b", "c", "d">>, <<"a", "b", "e", "f">>, <<"a", "b", "c", "e", "f">>,
     <<"a", "b", "c", "d", "e">>, <<"a", "b", "c", "x", "y">>, <<"a", "b", "c", "d", "x">>}

NextFuzzy == \E name \in SimilarNames : AddCharacter(name)

SpecFuzzy == InitApi /\ [][NextFuzzy]_vars

(***************************************************************************)
(* scrape_list_channels (src/utils/s1_video_scrape.py) on one channel:     *)
(* the video links found, the videos already in the channel's src          *)
(* directory, the download of every other video by download_video, and the *)
(* statistics of the channel.  Every attempt of download_video succeeds or *)
(* raises, as the network decides.                                         *)
(***************************************************************************)
\* download_video, line 29: max_retries = len(PROXY)
max_retries == 14

MaxVideos == 3

VideoIds == {"x", "y", "z"}

\* the links of a channel page: lists of different video ids
ChannelVideos ==
    {l \in UNION {[1..n -> VideoIds] : n \in 0..MaxVideos} :
        \A i, j \in 1..Len(l) : i # j => l[i] # l[j]}

\* lines 225-229: the videos of the channel that are not in the src directory
RECURSIVE NewVideos(_, _)
NewVideos(channel_videos, existing_video_ids) ==
    IF channel_videos = <<>> THEN <<>>
    ELSE (IF Head(channel_videos) \notin existing_video_ids
          THEN <<Head(channel_videos)>> ELSE <<>>)
         \o NewVideos(Tail(channel_videos), existing_video_ids)

InitScrape ==
    /\ characters = <<>>
    /\ appearances = <<>>
    /\ call = Call("none", <<>>, <<>>, Returned(None), None)
    /\ table = NoFile
    /\ mapping = <<>>
    /\ report = <<>>
    /\ fusion = {}
    /\ ncalls = 0
    /\ nruns = 0
    /\ docs = <<>>
    /\ merged = <<>>
    /\ todo = <<>>
    /\ nreruns = 0
    /\ copied = <<>>
    /\ clips = {}
    /\ pc = "channel"
    /\ \E existing \in SUBSET VideoIds :
          scrape = [NoScrape EXCEPT !.existing_video_ids = existing, !.files = existing]

\* lines 182-235: the statistics set to zero, the links of the channel, the videos to
\* download; a channel without links is left with total_found only (line 207)
ScrapeChannel ==
    /\ pc = "channel"
    /\ \E found \in ChannelVideos :
       \E new \in {NewVideos(found, scrape.existing_video_ids)} :
          /\ scrape' = [scrape EXCEPT
                 !.channel_videos = found,
                 !.new_videos = IF found = <<>> THEN <<>> ELSE new,
                 !.failed = 0,
                 !.stats = [total_found |-> Len(found),
                            already_downloaded |->
                                IF found = <<>> THEN 0
                                ELSE Cardinality(scrape.existing_video_ids),
                            new_downloads |-> 0,
                            failed_downloads |-> 0]]
          /\ pc' = IF found = <<>> THEN "done" ELSE "download"
    /\ call' = Call("get_all_video_links_from_a_channel", <<>>, <<>>, Returned(None), None)
    /\ UNCHANGED <<characters, appearances, table, mapping, report, fusion, ncalls, nruns,
                   clips, docs, merged, todo, nreruns, copied>>

\* line 202 raises: the except clause of line 262 leaves the statistics at zero
ScrapeFails ==
    /\ pc = "channel"
    /\ pc' = "done"
    /\ call' = Call("get_all_video_links_from_a_channel", <<>>, <<>>, Raised("Exception"), None)
    /\ UNCHANGED <<characters, appearances, table, mapping, report, fusion, ncalls, nruns,
                   clips, docs, merged, todo, nreruns, copied, scrape>>

\* lines 239-248 and 33: download_video is called for the next new video
DownloadNext ==
    /\ pc = "download"
    /\ Len(scrape.outcome) < Len(scrape.new_videos)
    /\ pc' = "attempt"
    /\ scrape' = [scrape EXCEPT !.retries = 0]
    /\ call' = Call("download_video", <<>>,
                    <<scrape.new_videos[Len(scrape.outcome) + 1]>>, Returned(None), None)
    /\ UNCHANGED <<characters, appearances, table, mapping, report, fusion, ncalls, nruns,
                   clips, docs, merged, todo, nreruns, copied>>

\* lines 34-54: an attempt (the direct one when retries = 0, else through
\* PROXY[retries - 1]) downloads the file, and download_video returns
AttemptSucceeds ==
    /\ pc = "attempt"
    /\ scrape.retries < max_retries
    /\ pc' = "download"
    /\ scrape' = [scrape EXCEPT
           !.files = @ \cup {scrape.new_videos[Len(scrape.outcome) + 1]},
           !.outcome = Append(@, "downloaded")]
    /\ UNCHANGED <<characters, appearances, call, table, mapping, report, fusion, ncalls, nruns,
                   clips, docs, merged, todo, nreruns, copied>>

\* lines 55-57: an attempt raises, the exception is caught and counted in retries; after
\* the attempt number max_retries the loop ends and download_video returns None
AttemptFails ==
    /\ pc = "attempt"
    /\ scrape.retries < max_retries
    /\ IF scrape.retries + 1 < max_retries
       THEN /\ pc' = "attempt"
            /\ scrape' = [scrape EXCEPT !.retries = @ + 1]
       ELSE /\ pc' = "download"
            /\ scrape' = [scrape EXCEPT !.retries = @ + 1, !.outcome = Append(@, "gave_up")]
    /\ UNCHANGED <<characters, appearances, call, table, mapping, report, fusion, ncalls, nruns,
                   clips, docs, merged, todo, nreruns, copied>>

\* lines 254-255: the loop is over; failed is counted at line 252 only, in the except
\* clause around the call of download_video, which no exception of an attempt reaches
FinishChannel ==
    /\ pc = "download"
    /\ Len(scrape.outcome) = Len(scrape.new_videos)
    /\ pc' = "done"
    /\ scrape' = [scrape EXCEPT
           !.stats.new_downloads = Len(scrape.new_videos) - scrape.failed,
           !.stats.failed_downloads = scrape.failed]
    /\ call' = Call("scrape_list_channels", <<>>, <<>>, Returned(None), None)
    /\ UNCHANGED <<characters, appearances, table, mapping, report, fusion, ncalls, nruns,
                   clips, docs, merged, todo, nreruns, copied>>

NextScrape ==
    \/ ScrapeChannel
    \/ ScrapeFails
    \/ DownloadNext
    \/ AttemptSucceeds
    \/ AttemptFails
    \/ FinishChannel

SpecScrape == InitScrape /\ [][NextScrape]_vars

(***************************************************************************)
(* Properties.                                                             *)
(***************************************************************************)
IsDigits(s) == \A i \in 1..Len(s) : s[i] \in DigitSet

\* a Python str of exactly three decimal digits
IsThreeDigitStr(v) == v.t = "str" /\ Len(v.s) = 3 /\ IsDigits(v.s)

\* C1: starting from an empty registry, after any sequence of add_character and
\* add_appearance calls the i-th character created has the id that is i written with
\* three digits (so the ids are 001..n, without duplicate or gap, in creation order),
\* and no call changes the id of a character that already exists.
C1_DenseIdsInCreationOrder ==
    /\ [](\A i \in 1..Len(characters) :
            IsThreeDigitStr(characters[i].id) /\ StrToNat(characters[i].id.s) = i)
    /\ [][/\ Len(characters') >= Len(characters)
          /\ \A i \in 1..Len(characters) : characters'[i].id = characters[i].id]_vars

\* C1 witness: three calls have created two characters and resolved one name to an
\* existing character
C1_Witness ==
    /\ pc = "api"
    /\ ncalls = 3
    /\ Len(characters) = 2
    /\ call.out.exc = "none"
    /\ call.char_id = characters[1].id

\* C2: within one run resolution depends only on the normalized name and is stable.
\* (a) a name that add_character resolves to an existing character is resolved to the
\* same character after any further step of the run; (b) right after a call of
\* add_character for a name has returned an id (by exact match, by fuzzy match or by
\* creating a character), add_character returns that id, creating nothing, for every
\* raw name with the same normalized form.
C2_StableResolution ==
    [][nruns' = nruns =>
        /\ \A y \in RawNames :
              \A r \in {add_character(characters, y)} :
                  (r.out.exc = "none" /\ r.chars = characters)
                    => add_character(characters', y) = [out |-> r.out, chars |-> characters']
        /\ (ncalls' = ncalls + 1 /\ call'.out.exc = "none")
              => \A y \in RawNames :
                    NormalizeName(y) = NormalizeName(call'.name)
                      => add_character(characters', y)
                           = [out |-> Returned(call'.char_id), chars |-> characters']]_vars

\* C2 witness: in a run the name "A" has been resolved to the second character, which was
\* created for the name "a" after another character
C2_Witness ==
    /\ pc = "process"
    /\ call.op = "add_appearance"
    /\ call.name = <<"A">>
    /\ call.out.exc = "none"
    /\ Len(characters) = 2
    /\ characters[2].canonical_name = PStr(<<"a">>)
    /\ call.char_id = characters[2].id

\* C3: identity is stable across runs.  When a run starts from the table the previous
\* run wrote, every character of the previous run keeps its id value, every raw name the
\* previous run resolved to a character resolves to the same id value, and a character
\* created in the later run gets an id above all earlier ones.
C3_IdentityStableAcrossRuns ==
    [][/\ (call.op = "rename_and_copy_videos" /\ call'.op = "load")
            => /\ \A i \in 1..Len(characters) :
                     /\ i <= Len(characters')
                     /\ IntOf(characters'[i].id) = IntOf(characters[i].id)
               /\ \A y \in RawNames :
                     LET r == add_character(characters, y)
                         later == add_character(characters', y)
                     IN  (r.out.exc = "none" /\ r.chars = characters)
                           => /\ later.out.exc = "none"
                              /\ later.chars = characters'
                              /\ IntOf(later.out.val) = IntOf(r.out.val)
       /\ (nruns' = nruns /\ Len(characters') > Len(characters))
            => \A i \in 1..Len(characters) :
                  IntOf(characters'[Len(characters')].id) > IntOf(characters[i].id)]_vars

\* C4: every character id in the registry, in CHARACTERS.csv and in CHARACTERS_FINAL.csv
\* is a 3-digit zero-padded string.
C4_IdsAreThreeDigitStrings ==
    /\ \A i \in 1..Len(characters) : IsThreeDigitStr(characters[i].id)
    /\ \A i \in 1..Len(table.rows) : IsThreeDigitStr(PStr(table.rows[i].ID))
    /\ \A i \in 1..Len(report) : IsThreeDigitStr(PStr(report[i].ID))

\* C5: in every registry state no two characters have the same normalized canonical
\* name and no string is in the variations of two different characters.
C5_NormalizedNameUnique ==
    \A i, j \in 1..Len(characters) :
        i # j =>
            /\ ~(/\ characters[i].canonical_name.t = "str"
                 /\ characters[j].canonical_name.t = "str"
                 /\ NormalizeName(characters[i].canonical_name.s)
                      = NormalizeName(characters[j].canonical_name.s))
            /\ \A k \in 1..Len(characters[i].variations), l \in 1..Len(characters[j].variations) :
                  characters[i].variations[k].t = "str"
                    => characters[i].variations[k] # characters[j].variations[l]

\* C5 witness: in a run that reloaded two characters from the table, the name "A" has
\* been resolved
C5_Witness ==
    /\ nruns = 2
    /\ pc = "process"
    /\ Len(characters) = 2
    /\ call.op = "add_appearance"
    /\ call.name = <<"A">>
    /\ call.out.exc = "none"

\* C6: when the registry holds 999 characters, a call of add_character or of
\* add_appearance for a name that matches no character raises the capacity error and
\* changes neither the character list nor the appearance list, and the characters still
\* resolve to their ids (the lists are compared in full; resolution is evaluated for the
\* characters of CapSample).
C6_CapacityErrorCommitsNothing ==
    [][(/\ ncalls' = ncalls + 1
        /\ Len(characters) = 999
        /\ find_character_id(characters, call'.name) = Returned(None))
          => /\ call'.out = Raised("ValueError")
             /\ characters' = characters
             /\ appearances' = appearances
             /\ \A i \in CapSample :
                   find_character_id(characters', characters[i].canonical_name.s)
                     = Returned(characters[i].id)]_vars

\* C6 witness: a call on the registry of 999 characters has raised the capacity error
C6_Witness ==
    /\ Len(characters) = 999
    /\ call.op \in {"add_character", "add_appearance"}
    /\ call.out = Raised("ValueError")

\* rename_and_copy_videos has just returned: mapping and report are those of table
RenameDone ==
    /\ pc = "idle"
    /\ call.op = "rename_and_copy_videos"
    /\ call.out.exc = "none"

\* the ids listed for a clip in the character table, with repetitions, in table order
IdsOnClip(video) == CharIds(TableEntries(read_csv(table)), video)

ClipsInTable ==
    {TableEntries(read_csv(table))[i].video : i \in 1..Len(TableEntries(read_csv(table)))}

\* C7: the appearance collection never holds a (character_id, clip_name) pair twice, also
\* right after the persisted table is reloaded, and add_appearance for a pair that is
\* present leaves the collection unchanged.
C7_AppearancesUnique ==
    /\ [](\A i, j \in 1..Len(appearances) : i # j => appearances[i] # appearances[j])
    /\ [][(/\ ncalls' = ncalls + 1
           /\ call'.op = "add_appearance"
           /\ call'.out.exc = "none"
           /\ InList(Appearance(call'.char_id, call'.video), appearances))
             => appearances' = appearances]_vars

\* C8: the mapping written by rename_and_copy_videos has an entry for a clip if and only
\* if exactly 2 distinct character ids appear on that clip in the character table; a
\* clip without entry is still listed, under its own base name, for each of its
\* characters in the report.
C8_PairedIffTwoDistinctIds ==
    RenameDone =>
        /\ \A i \in 1..Len(mapping) : mapping[i].video \in ClipsInTable
        /\ \A video \in ClipsInTable :
              InMapping(mapping, video) <=> Cardinality(SeqToSet(IdsOnClip(video))) = 2
        /\ \A i \in 1..Len(read_csv(table)) :
              \A j \in 1..Len(RowVideos(read_csv(table)[i])) :
                  ~InMapping(mapping, RowVideos(read_csv(table)[i])[j])
                    => /\ j <= Len(SplitVideos(report[i].NEW_VIDEO))
                       /\ SplitVideos(report[i].NEW_VIDEO)[j]
                            = Basename(RowVideos(read_csv(table)[i])[j])

\* C9: distinct source clips of the mapping have distinct destination paths.
C9_DestinationsDisjoint ==
    \A i, j \in 1..Len(mapping) : i # j => mapping[i].path # mapping[j].path

MinOf(l) == CHOOSE m \in SeqToSet(l) : \A x \in SeqToSet(l) : m <= x
MaxOf(l) == CHOOSE m \in SeqToSet(l) : \A x \in SeqToSet(l) : m >= x

\* C10: for every clip of the mapping the destination file name is made of three
\* digits, "_", three digits and an extension; the first three digits are the
\* numerically smaller and the next three the larger of the clip's two character ids.
C10_LowIdThenHighId ==
    RenameDone =>
        \A i \in 1..Len(mapping) :
            LET name == Basename(mapping[i].path)
                ids == [k \in 1..Len(IdsOnClip(mapping[i].video)) |->
                           IntOf(IdsOnClip(mapping[i].video)[k])]
            IN  /\ Len(ids) = 2
                /\ Len(name) > 8
                /\ IsDigits(SubSeq(name, 1, 3))
                /\ StrToNat(SubSeq(name, 1, 3)) = MinOf(ids)
                /\ name[4] = "_"
                /\ IsDigits(SubSeq(name, 5, 7))
                /\ StrToNat(SubSeq(name, 5, 7)) = MaxOf(ids)
                /\ name[8] = "."

\* C10 witness: a clip is in the mapping whose two ids are listed in the table with the
\* larger first, the larger having two digits and the smaller one
C10_Witness ==
    /\ RenameDone
    /\ \E i \in 1..Len(mapping) :
          IdsOnClip(mapping[i].video) = <<PInt(<<"1", "0">>), PInt(<<"2">>)>>

\* C11: a call of rename_and_copy_videos that follows a call which returned, on the same
\* table and the same clip files, returns too, writes the same mapping, makes no copy
\* and leaves the files of the fusion directory as they are.
C11_RenameIdempotent ==
    [][(/\ nreruns' = nreruns + 1
        /\ call.op = "rename_and_copy_videos"
        /\ call.out.exc = "none")
          => /\ call'.out.exc = "none"
             /\ mapping' = mapping
             /\ copied' = <<>>
             /\ fusion' = fusion]_vars

\* C11 witness: the call has been repeated after a call that copied a clip
C11_Witness ==
    /\ nreruns = 1
    /\ Len(mapping) >= 1
    /\ \E f \in fusion : f.content \in clips

\* C12: no step changes or removes a file of the fusion directory and every copy made
\* has a destination that did not exist; on a destination that exists
\* copy_file_if_not_exists leaves the directory as it is and returns False.
C12_NeverOverwrites ==
    /\ [][/\ \A f \in fusion : f \in fusion'
          /\ copied' # copied =>
                \A i \in 1..Len(copied') : ~FileExists(fusion, copied'[i].destination)]_vars
    /\ [](\A f \in fusion, source \in ClipPaths :
            /\ copy_file_if_not_exists(source, f.path, fusion, clips) = fusion
            /\ ~copy_file_returns(source, f.path, fusion, clips))

\* C12 witness: a clip that exists is paired to the name of a file that was in the
\* fusion directory before the call
C12_Witness ==
    /\ RenameDone
    /\ OldFiles \subseteq fusion
    /\ \E i \in 1..Len(mapping) :
          /\ mapping[i].video \in clips
          /\ \E f \in OldFiles : f.path = mapping[i].path

\* merge_final_json_files has just returned: merged is the list it saved
MergeDone ==
    /\ call.op = "merge_final_json_files"
    /\ call.out.exc = "none"

\* a file of that name is in the video directory
IsClipFile(name) == name # <<>> /\ JoinPath(VideosDir, name) \in clips

\* C14: the merged list holds a scene of the documents if and only if the base name of
\* its name is a file in the video directory, whatever the name is (a path in another
\* directory, empty, missing).
C14_MergedIffClipExists ==
    MergeDone =>
        \A i \in 1..Len(docs) :
            \A j \in 1..Len(DocScenes(docs[i])) :
                InList(DocScenes(docs[i])[j], merged)
                  <=> IsClipFile(Basename(SceneName(DocScenes(docs[i])[j])))

\* C16: the merged list is in ascending order of name: no record has a name less than
\* the name of the record before it.
C16_MergedSortedByName ==
    MergeDone =>
        \A i \in 1..(Len(merged) - 1) :
            ~TextLess(SceneName(merged[i + 1]), SceneName(merged[i]))

\* C16 witness: the merged list holds scenes of different names that the documents list
\* in another order
C16_Witness ==
    /\ MergeDone
    /\ Len(merged) >= 2
    /\ SceneName(merged[1]) # SceneName(merged[Len(merged)])
    /\ merged # AllScenes(docs, clips)

\* C17: whatever the documents are, aggregation returns, and the merged list holds
\* every scene with an existing clip of every document that has a scenes array (and
\* nothing else).
C17_BadDocumentsSkipped ==
    call.op = "merge_final_json_files" =>
        /\ call.out.exc = "none"
        /\ \A i \in 1..Len(docs) :
              \A j \in 1..Len(DocScenes(docs[i])) :
                  SceneValid(DocScenes(docs[i])[j], clips)
                    => InList(DocScenes(docs[i])[j], merged)
        /\ Len(merged) = Len(AllScenes(docs, clips))

\* C13: when post_process reaches its end for the first time, after any number of
\* runs that were interrupted, on the same documents and clips, the character table, the
\* mapping, the report and the files of the fusion directory are those of a run that
\* was not interrupted.
C13_ResumeEqualsUninterrupted ==
    [][(/\ pc = "rename"
        /\ call'.op = "rename_and_copy_videos"
        /\ call'.out.exc = "none"
        /\ report = <<>>)
          => \A u \in {post_process(docs, clips)} :
                /\ u.exc = "none"
                /\ table'.rows = u.table
                /\ mapping' = u.mapping
                /\ report' = u.report
                /\ fusion' = u.files]_vars

\* the position of the first call of add_appearance for a raw name
FirstCall(name, pairs) == Min({k \in 1..Len(pairs) : pairs[k].name = name})

\* clip d/v shows a and b, clip d/w shows a and c, and only d/v is in the video directory
DroppedClipDocs ==
    <<Doc("object", <<Scene(PStr(<<"d", "/", "v">>), <<<<"a">>, <<"b">>>>),
                      Scene(PStr(<<"d", "/", "w">>), <<<<"a">>, <<"c">>>>)>>)>>

DroppedClipCase ==
    /\ docs = DroppedClipDocs
    /\ clips = {VideosDir, <<"d", "/", "v">>}
    /\ nruns = 1
    /\ RenameDone

\* C15: in the first run, which starts without character table, every character was
\* created for an entity of a scene of the merged list and every appearance is that of
\* an entity on a scene of the merged list; the characters are numbered 001, 002, ...
\* in the order in which their names first come up in the merged list.  With clip d/v
\* (a, b) kept and clip d/w (a, c) dropped the run ends with exactly a = 001, b = 002,
\* their two appearances on d/v and the single pairing d/v -> 001_002.
C15_OnlyKeptScenesCount ==
    nruns = 1 =>
        \A pairs \in {Pairs(merged)} :
            /\ \A i \in 1..Len(characters) :
                  /\ characters[i].id = PStr(Fmt03(i))
                  /\ \E k \in 1..Len(pairs) : characters[i].canonical_name = PStr(pairs[k].name)
            /\ \A i, j \in 1..Len(characters) :
                  i < j => FirstCall(characters[i].canonical_name.s, pairs)
                             < FirstCall(characters[j].canonical_name.s, pairs)
            /\ \A i \in 1..Len(appearances) :
                  \E k \in 1..Len(pairs) :
                      /\ pairs[k].video = appearances[i].video_name
                      /\ find_character_id(characters, pairs[k].name)
                            = Returned(appearances[i].character_id)
            /\ DroppedClipCase =>
                  /\ characters = <<Character(PStr(Fmt03(1)), PStr(<<"a">>), <<PStr(<<"a">>)>>),
                                    Character(PStr(Fmt03(2)), PStr(<<"b">>), <<PStr(<<"b">>)>>)>>
                  /\ appearances = <<Appearance(PStr(Fmt03(1)), <<"d", "/", "v">>),
                                     Appearance(PStr(Fmt03(2)), <<"d", "/", "v">>)>>
                  /\ mapping = <<[video |-> <<"d", "/", "v">>,
                                  path |-> FusionDir \o Fmt03(1) \o <<"_">> \o Fmt03(2) \o Mp4]>>

\* C15 witness: the first run has ended on the documents whose second clip is missing
C15_Witness == DroppedClipCase /\ Len(characters) = 2

\* C18: a row of the character table without NAME is skipped by the load: no character
\* of the registry has a name that is not a str, and no call fails on such a name
\* (AttributeError raised by normalize_name).
C18_MalformedRowsSkipped ==
    /\ \A i \in 1..Len(characters) : characters[i].canonical_name.t = "str"
    /\ call.out.exc # "AttributeError"

\* the entry of the mapping carries a failure flag
MarkedFailed(entry) == "failed" \in DOMAIN entry /\ entry.failed

\* the clip of the entry is missing, so that its copy failed
CopyFailed(entry) == entry.video \notin clips /\ ~FileExists(fusion, entry.path)

\* C19: a call of rename_and_copy_videos on a table with rows returns also when the
\* source of a paired clip is missing; the mapping then holds an entry for every clip
\* listed with two ids, the report has a row for every row of the table, and the entry
\* of a clip whose copy failed is marked as failed.
C19_CopyFailureRecorded ==
    (call.op = "rename_and_copy_videos" /\ ~read_csv_raises(table)) =>
        /\ call.out.exc = "none"
        /\ \A video \in ClipsInTable : Len(IdsOnClip(video)) = 2 => InMapping(mapping, video)
        /\ Len(report) = Len(table.rows)
        /\ \A i \in 1..Len(mapping) : CopyFailed(mapping[i]) => MarkedFailed(mapping[i])

\* C20: no call made by post_process ends with an exception other than the capacity
\* error (ValueError), so that every other run writes the table, the mapping and the
\* report.
C20_OnlyCapacityAborts ==
    /\ call.out.exc \in {"none", "ValueError"}
    /\ RenameDone => (table.exists /\ report # <<>>)

\* the base names listed in a NEW_VIDEO cell
ReportNames(cell) == IF cell = <<>> THEN <<>> ELSE SplitVideos(cell)

\* C21: the report has one row per row of the character table, with the same ID and
\* NAME; its NEW_VIDEO lists one base name per clip of the row, in the order of the
\* table: that of the mapping entry when the clip has one, that of the clip otherwise.
C21_ReportListsEveryClip ==
    RenameDone =>
        /\ Len(report) = Len(table.rows)
        /\ \A i \in 1..Len(table.rows) :
              \A videos \in {RowVideos(read_csv(table)[i])} :
                  /\ report[i].ID = table.rows[i].ID
                  /\ report[i].NAME = table.rows[i].NAME
                  /\ Len(ReportNames(report[i].NEW_VIDEO)) = Len(videos)
                  /\ \A j \in 1..Len(videos) :
                        ReportNames(report[i].NEW_VIDEO)[j]
                          = IF InMapping(mapping, videos[j])
                            THEN Basename(Renamed(mapping, videos[j]))
                            ELSE Basename(videos[j])

\* C22: the value normalize_name returns for a name is left unchanged by normalize_name.
C22_NormalizeIdempotent ==
    call.op = "normalize_name" =>
        /\ call.out.val.s = NormalizeName(call.name)
        /\ NormalizeName(call.out.val.s) = call.out.val.s

\* C22 witness: a name with a leading space, a capital and punctuation has been normalized
C22_Witness ==
    /\ call.op = "normalize_name"
    /\ call.name = <<" ", "A", "-">>
    /\ call.out.val = PStr(<<"a">>)

\* the characters that have a name whose similarity to a normalized name is above 60
Above60(chars, normalized) ==
    {i \in 1..Len(chars) :
        \E k \in 1..Len(FuzzyNames(chars[i])) :
            Ratio(normalized, NormalizeName(FuzzyNames(chars[i])[k].s)) > 60}

\* C23: a call of add_character for a name that no character matches exactly returns
\* the id of the first character that has a name of similarity above 60 and creates
\* nothing; when no character has one (a similarity of 60 is not above 60) it creates
\* a character, and find_character_id returned no match.
C23_FirstAbove60Wins ==
    [][(/\ call'.op = "add_character"
        /\ ncalls' = ncalls + 1
        /\ ExactPass(characters, NormalizeName(call'.name)) = Returned(None))
          => \A above \in {Above60(characters, NormalizeName(call'.name))} :
                IF above # {}
                THEN /\ call'.out = Returned(characters[Min(above)].id)
                     /\ find_character_id(characters, call'.name) = call'.out
                     /\ characters' = characters
                ELSE /\ find_character_id(characters, call'.name) = Returned(None)
                     /\ Len(characters') = Len(characters) + 1
                     /\ call'.out = Returned(characters'[Len(characters')].id)]_vars

\* C23 witness: abcef has been resolved to the first character, abcd (similarity 67),
\* while the second character, abef, has similarity 89
C23_Witness ==
    /\ Len(characters) = 2
    /\ characters[1].canonical_name = PStr(<<"a", "b", "c", "d">>)
    /\ characters[2].canonical_name = PStr(<<"a", "b", "e", "f">>)
    /\ call.op = "add_character"
    /\ call.name = <<"a", "b", "c", "e", "f">>
    /\ call.out = Returned(characters[1].id)

\* the rows of two tables are the same: as many rows, and row by row the same id
\* value, the same name and the same clip list
SameRows(after, before) ==
    /\ Len(after) = Len(before)
    /\ \A i \in 1..Len(before) :
           /\ StrToNat(after[i].ID) = StrToNat(before[i].ID)
           /\ after[i].NAME = before[i].NAME
           /\ after[i].VIDEO = before[i].VIDEO

\* generate_table ends an update that started from the table an earlier run wrote
SecondUpdate ==
    /\ pc = "process"
    /\ todo = <<>>
    /\ table.exists
    /\ ~read_csv_raises(table)
    /\ call'.op = "generate_table"

\* C24: an update of the registry that starts from the table an earlier run wrote from
\* the same merged scenes creates no character and adds no appearance, and the table
\* it writes has the same rows (id values, names, clip lists, in the same order).
C24_UpdateIdempotent ==
    [][SecondUpdate
          => /\ Len(characters) = Len(table.rows)
             /\ appearances = LoadAppearances(read_csv(table))
             /\ SameRows(table'.rows, table.rows)]_vars

\* the documents enumerated in another order
Reordered(documents, p) == [i \in 1..Len(documents) |-> documents[p[i]]]

\* the characters the registry creates from a merged list, starting empty
IdsFrom(scenes) == process_video_json(<<>>, <<>>, Pairs(scenes)).chars

\* C25: for the same documents and clip files the merged list, and the characters (ids
\* and names) the registry creates from it, are the same in whatever order the documents
\* are enumerated, also when two documents hold scenes of the same name.
C25_MergeOrderIndependent ==
    MergeDone =>
        \A p \in Permutations(1..Len(docs)) :
            \A r \in {merge_final_json_files(Reordered(docs, p), clips)} :
                /\ r.exc = "none"
                /\ r.scenes = merged
                /\ IdsFrom(r.scenes) = IdsFrom(merged)

\* the extension of a path (os.path.splitext): the text from the last dot of the base name on, empty
\* when there is no dot or only dots before it
Extension(path) ==
    LET base == Basename(path)
        dots == {i \in 1..Len(base) : base[i] = "."}
        last == CHOOSE i \in dots : \A j \in dots : j <= i
    IN  IF dots = {} \/ \A i \in 1..last : base[i] = "."
        THEN <<>>
        ELSE SubSeq(base, last, Len(base))

\* C26: every mapping entry gives a destination path with the extension of its source
\* clip.
C26_DestinationKeepsExtension ==
    RenameDone =>
        \A i \in 1..Len(mapping) : Extension(mapping[i].path) = Extension(mapping[i].video)

\* the number of new videos whose download ended that way
CountOutcome(kind) == Cardinality({i \in 1..Len(scrape.outcome) : scrape.outcome[i] = kind})

\* the download loop of the channel is over and its statistics are written
ChannelDone == pc = "done" /\ call.op = "scrape_list_channels"

\* C27: when the downloads of a channel are over, failed_downloads is the number of new
\* videos for which every attempt of download_video failed, new_downloads is the number
\* of the others, and their sum is the number of videos found that were not already in
\* the src directory.
C27_DownloadStatsAccurate ==
    ChannelDone =>
        /\ scrape.stats.failed_downloads = CountOutcome("gave_up")
        /\ scrape.stats.new_downloads = CountOutcome("downloaded")
        /\ scrape.stats.new_downloads + scrape.stats.failed_downloads
              = Cardinality({i \in 1..Len(scrape.channel_videos) :
                               scrape.channel_videos[i] \notin scrape.existing_video_ids})

\* the variations of a character are one string, the normalized canonical name
OneVariation(char) ==
    /\ Len(char.variations) = 1
    /\ char.variations[1].t = "str"
    /\ char.canonical_name.t = "str"
    /\ char.variations[1].s = NormalizeName(char.canonical_name.s)

\* a call of add_character or add_appearance whose name find_character_id resolves to
\* an existing character
MatchingCall ==
    /\ call'.op \in {"add_character", "add_appearance"}
    /\ ncalls' = ncalls + 1
    /\ find_character_id(characters, call'.name).exc = "none"
    /\ find_character_id(characters, call'.name).val # None

\* C28: in every registry state, also after a reload of the table, the variations of each
\* character are exactly one string, the normalized form of its canonical name; a call
\* whose name matches an existing character (exactly or by similarity) leaves the
\* character list as it was.
C28_OneVariationPerCharacter ==
    /\ [](\A i \in 1..Len(characters) : OneVariation(characters[i]))
    /\ [][MatchingCall => characters' = characters]_vars

\* the characters of the registry that have a name (a str)
Named == {i \in 1..Len(characters) : characters[i].canonical_name.t = "str"}

NameOf(i) == NormalizeName(characters[i].canonical_name.s)

\* C29: no two characters of the registry have (normalized) names of similarity above
\* 60; so for the name of a character the fuzzy pass, where it finds a character, finds
\* the one the exact pass finds, which is that character.
C29_NoTwoSimilarCharacters ==
    /\ \A i, j \in Named : i # j => Ratio(NameOf(i), NameOf(j)) <= 60
    /\ \A i \in Named :
          \A fuzzy \in {FuzzyPass(characters, NameOf(i))} :
              (fuzzy.exc = "none" /\ fuzzy.val # None)
                => /\ fuzzy.val = characters[i].id
                   /\ ExactPass(characters, NameOf(i)) = fuzzy

\* C29 witness: the second run has reloaded two characters from the table and a call
\* with the name of the second one has been resolved to it
C29_Witness ==
    /\ nruns = 2
    /\ Len(characters) = 2
    /\ Named = {1, 2}
    /\ call.op = "add_appearance"
    /\ NormalizeName(call.name) = NameOf(2)
    /\ call.out.exc = "none"
    /\ call.char_id = characters[2].id
    /\ characters[2].id.t = "int"

\* every character has an appearance and every appearance is of a character
RegistryLinked ==
    /\ \A i \in 1..Len(characters) :
          \E k \in 1..Len(appearances) : appearances[k].character_id = characters[i].id
    /\ \A k \in 1..Len(appearances) :
          \E i \in 1..Len(characters) : characters[i].id = appearances[k].character_id

\* add_appearance has returned, or load_existing_characters has
AppearanceAddedOrLoaded ==
    /\ call.op \in {"add_appearance", "load"}
    /\ call.out.exc = "none"

\* C30: after every add_appearance call that returned and after every reload of the
\* saved table, each character has at least one appearance and each appearance is of a
\* character of the registry; no row of the saved table has an empty clip list.
C30_EveryCharacterAppears ==
    /\ AppearanceAddedOrLoaded => RegistryLinked
    /\ table.exists => \A i \in 1..Len(table.rows) : table.rows[i].VIDEO # <<>>

====
